---- MODULE Spec2Model ----
(***************************************************************************)
(* Model of the license-plate listing router (Refactoring/art_after.py,    *)
(* the refactored twin of Refactoring/art_before.py).  The state is the    *)
(* content of the database the handlers read and write through the ORM     *)
(* session, plus the last request and its response.  One action per        *)
(* request handler.  The crud collaborators the router imports from        *)
(* backend.app.crud are not part of this source tree; they are modelled    *)
(* from their description in the specification.                            *)
(***************************************************************************)
EXTENDS Integers, Sequences, FiniteSets, TLC

\* ------------------------------------------------------------------ bounds
MaxUsers == 2
MaxPlates == 2
MaxQuota == 1
MaxPrice == 1
MaxViews == 2
MaxHistory == 3
MaxLikes == 2
MaxRows == 2
MaxRating == 1
MaxRegion == 2
MaxSkip == 2
MaxLimit == 2
MaxLines == 3
MaxRecords == 2
MaxTop == 2
MaxTasks == 2

Users == 1..MaxUsers
PlateIds == 1..(MaxPlates + 1)
Prices == 0..MaxPrice
Regions == 1..MaxRegion
Ratings == 0..MaxRating
PricingTypes == {"free", "paid", "vip"}

\* Optional[T]: None is the empty tuple, a present value v is <<v>>.
None == <<>>
Some(v) == <<v>>
IsNone(o) == o = <<>>
Truthy(o) == o # <<>> /\ o[1] # 0

Min(a, b) == IF a <= b THEN a ELSE b
Max(a, b) == IF a >= b THEN a ELSE b

\* ------------------------------------------------------------------ state
VARIABLES
    plates,                  \* LicensePlate rows in storage order; id = position
    price_history,           \* PriceHistoryEntry rows, append-only
    likes,                   \* PlateLike rows in storage order
    remaining_free_listings, \* User.remaining_free_listings
    initial_free_listings,   \* the quota each user started with (history)
    price_history_feature,   \* the users whose subscription grants price history
    last,                    \* the last request and its response
    top_ratings,             \* TopRating rows in storage order
    tasks,                   \* the requests in flight, each at an await point
    users_db,                \* mock server: username -> password
    user_files,              \* mock server: username -> uploaded records
    response                 \* mock server: the last request and its response

vars == <<plates, price_history, likes, remaining_free_listings,
          initial_free_listings, price_history_feature, last,
          top_ratings, tasks, users_db, user_files, response>>

\* The mock server's state; the listing service never touches it.
server == <<users_db, user_files, response>>

db == <<plates, price_history, likes, remaining_free_listings>>

\* --------------------------------------------------------------- routing
\* A path is a sequence of segments below the router's prefix.
Lit(s) == [kind |-> "lit", s |-> s, n |-> 0]
Num(n) == [kind |-> "num", s |-> "", n |-> n]
Param == [kind |-> "param", s |-> "", n |-> 0]

Route(m, p, e) == [method |-> m, path |-> p, endpoint |-> e]

\* The routes in the order the decorators register them.
Routes ==
    << Route("GET", <<Lit("top")>>, "read_top_license_plates"),
       Route("GET", <<Param>>, "read_license_plate"),
       Route("GET", <<>>, "read_license_plates"),
       Route("GET", <<Lit("liked")>>, "get_liked_license_plates"),
       Route("GET", <<Param, Lit("price-history")>>, "read_license_plate_price_history"),
       Route("GET", <<Lit("users"), Param>>, "read_license_plates_by_user"),
       Route("POST", <<>>, "create_new_license_plate"),
       Route("PUT", <<Param>>, "update_existing_license_plate"),
       Route("POST", <<Lit("license-plates"), Param, Lit("top-rating")>>, "add_to_top_rating"),
       Route("POST", <<Param, Lit("like")>>, "toggle_like"),
       Route("GET", <<Param, Lit("like")>>, "get_like_status") >>

\* A path parameter matches any one segment; a literal matches itself.
SegMatches(pat, seg) == pat.kind = "param" \/ (seg.kind = "lit" /\ pat = seg)

PathMatches(pattern, path) ==
    /\ Len(pattern) = Len(path)
    /\ \A i \in 1..Len(pattern) : SegMatches(pattern[i], path[i])

FullMatch(r, method, path) == r.method = method /\ PathMatches(r.path, path)

\* The router hands the request to the first route, in registration order,
\* whose path and method both match.
Dispatch(method, path) ==
    LET hits == {i \in 1..Len(Routes) : FullMatch(Routes[i], method, path)}
    IN  IF hits = {} THEN "no_route"
        ELSE Routes[CHOOSE i \in hits : \A j \in hits : i <= j].endpoint

\* A parameter declared int accepts only a numeric segment.
IsInt(seg) == seg.kind = "num"


\* ------------------------------------------------------------- responses
Success == 200
NotFound == 404
Forbidden == 403
BadRequest == 400
Unprocessable == 422

NoQuery == [skip |-> 0, limit |-> 0, price_min |-> None, price_max |-> None,
            region |-> None, rating_min |-> None]

\* No request yet.  status 0 means not answered; the pre_ fields record what
\* a request found in the database before it ran, and again whether the
\* request before it was the same one, answered with success.
NoRequest ==
    [op |-> "start", endpoint |-> "", user |-> None, plate_id |-> 0,
     pricing_type |-> "", query |-> NoQuery, again |-> FALSE,
     status |-> 0, plate |-> None, price_history |-> <<>>, data |-> <<>>,
     total |-> 0, is_liked |-> FALSE, total_likes |-> 0,
     pre_views |-> 0, pre_liked |-> FALSE, pre_likes |-> 0,
     points |-> 0, days |-> 0]

Received(op, endpoint, user, plate_id) ==
    [NoRequest EXCEPT !.op = op, !.endpoint = endpoint, !.user = user,
                      !.plate_id = plate_id]

Request(op, endpoint, user, plate_id) ==
    [Received(op, endpoint, user, plate_id) EXCEPT
       !.again = /\ last.op = op
                 /\ last.user = user
                 /\ last.plate_id = plate_id
                 /\ last.status = Success]

\* ---------------------------------------------------------- collaborators
\* backend.app.crud.license_plate / backend.app.crud.user, from the spec.
get_license_plate(plate_id) ==
    IF plate_id \in 1..Len(plates) THEN Some(plates[plate_id]) ELSE None

get_price_history(plate_id) ==
    SelectSeq(price_history, LAMBDA e : e.plate_id = plate_id)

can_view_price_history(user_id) == user_id \in price_history_feature

check_subscription_features(user_id, feature) ==
    feature = "PRICE_HISTORY" /\ user_id \in price_history_feature

create_license_plate(data, seller_id, pricing_type, valid_until) ==
    [id |-> Len(plates) + 1, seller_id |-> seller_id, price |-> data.price,
     region |-> data.region, rating |-> 0, views_count |-> 0,
     pricing_type |-> pricing_type, valid_until |-> valid_until]

create_price_history_entry(plate_id, price) ==
    Append(price_history, [plate_id |-> plate_id, price |-> price])

\* Applies the update to the plate; a changed price appends a history row.
update_plate_with_price_history(existing_plate, plate_update) ==
    [plate |-> [existing_plate EXCEPT !.price = plate_update.price],
     history |-> IF plate_update.price # existing_plate.price
                 THEN create_price_history_entry(existing_plate.id, plate_update.price)
                 ELSE price_history]

check_plate_like(plate_id, user_id) ==
    \E i \in 1..Len(likes) : likes[i] = [user_id |-> user_id, plate_id |-> plate_id]

LikesCountIn(rows, plate_id) ==
    Len(SelectSeq(rows, LAMBDA r : r.plate_id = plate_id))

get_plate_likes_count(plate_id) == LikesCountIn(likes, plate_id)

\* Deletes the (user, plate) row if there is one, inserts it otherwise; a
\* missing plate is a ValueError.
toggle_plate_like(plate_id, user_id) ==
    LET row == [user_id |-> user_id, plate_id |-> plate_id]
        rows == IF check_plate_like(plate_id, user_id)
                THEN SelectSeq(likes, LAMBDA r : r # row)
                ELSE Append(likes, row)
    IN  IF IsNone(get_license_plate(plate_id))
        THEN [raised |-> "ValueError", rows |-> likes, is_liked |-> FALSE, total_likes |-> 0]
        ELSE [raised |-> "", rows |-> rows,
              is_liked |-> ~check_plate_like(plate_id, user_id),
              total_likes |-> LikesCountIn(rows, plate_id)]

\* Inserts the row.
create_top_rating(rating) == Append(top_ratings, rating)

\* The user's plates in storage order, one page of them.
get_license_plates_by_user(user_id, skip, limit) ==
    LET own == SelectSeq(plates, LAMBDA p : p.seller_id = user_id)
    IN  SubSeq(own, skip + 1, Min(Len(own), skip + limit))


\* --------------------------------------------------------------- handlers
\* The clock read at creation; validity is counted in days from it.
utcnow == 0

valid_days_by_tier(pricing_type) ==
    CASE pricing_type = "free" -> 30
      [] pricing_type = "paid" -> 60
      [] pricing_type = "vip" -> 90
valid_days(pricing_type) ==
    CASE pricing_type = "free" -> 30
      [] pricing_type = "paid" -> 30
      [] pricing_type = "vip" -> 30

\* What a create request carries.  Only price is read by the router; region
\* is one of the fields the collaborator stores.
NewPlate == [price |-> 0, region |-> 1]
PlateUpdates == [price : Prices]

\* ---- GET /{plate_id}
ViewsAfterReadTwice(views_count) == views_count + 2
ViewsAfterRead(views_count) == views_count + 1

PriceHistoryShownToAnyUser(plate_id, current_user) ==
    IF ~IsNone(current_user) THEN get_price_history(plate_id) ELSE <<>>
\* price_history stays None, answered as [], unless a user is present and
\* may view it.
PriceHistoryShown(plate_id, current_user) ==
    IF ~IsNone(current_user) /\ can_view_price_history(current_user[1])
    THEN get_price_history(plate_id)
    ELSE <<>>

read_license_plate(plate_id, current_user) ==
    LET req == Request("get_plate", Dispatch("GET", <<Num(plate_id)>>),
                       current_user, plate_id)
        found == get_license_plate(plate_id)
    IN  /\ req.endpoint = "read_license_plate"
        /\ IF IsNone(found)
           THEN /\ last' = [req EXCEPT !.status = NotFound]
                /\ UNCHANGED db
           ELSE LET plate == [found[1] EXCEPT
                                !.views_count = ViewsAfterRead(found[1].views_count)]
                IN  /\ found[1].views_count < MaxViews
                    /\ plates' = [plates EXCEPT ![plate_id] = plate]
                    /\ last' = [req EXCEPT
                                  !.status = Success,
                                  !.plate = Some(plate),
                                  !.price_history = PriceHistoryShown(plate_id, current_user),
                                  !.pre_views = found[1].views_count]
                    /\ UNCHANGED <<price_history, likes, remaining_free_listings>>
        /\ UNCHANGED <<initial_free_listings, price_history_feature,
                       top_ratings, tasks, server>>

\* ---- GET /{plate_id}/price-history
PriceHistoryStatusExistenceFirst(plate_id, current_user) ==
    IF IsNone(get_license_plate(plate_id)) THEN NotFound
    ELSE IF ~check_subscription_features(current_user, "PRICE_HISTORY") THEN Forbidden
    ELSE Success
PriceHistoryStatus(plate_id, current_user) ==
    IF ~check_subscription_features(current_user, "PRICE_HISTORY") THEN Forbidden
    ELSE IF IsNone(get_license_plate(plate_id)) THEN NotFound
    ELSE Success

read_license_plate_price_history(plate_id, current_user) ==
    LET req == Request("get_price_history",
                       Dispatch("GET", <<Num(plate_id), Lit("price-history")>>),
                       Some(current_user), plate_id)
        status == PriceHistoryStatus(plate_id, current_user)
    IN  /\ req.endpoint = "read_license_plate_price_history"
        /\ last' = [req EXCEPT
                      !.status = status,
                      !.price_history = IF status = Success
                                        THEN get_price_history(plate_id) ELSE <<>>]
        /\ UNCHANGED <<db, initial_free_listings, price_history_feature,
                       top_ratings, tasks, server>>

\* ---- POST ""
FreeListingsExhaustedBelowZero(current_user) ==
    remaining_free_listings[current_user] < 0
FreeListingsExhausted(current_user) ==
    remaining_free_listings[current_user] <= 0

RemainingNotDecreased(remaining) == remaining
RemainingAfterFreeListing(remaining) == remaining - 1

create_new_license_plate(plate, pricing_type, current_user) ==
    LET req == [Request("create_plate", Dispatch("POST", <<>>),
                        Some(current_user), 0)
                  EXCEPT !.pricing_type = pricing_type]
    IN  /\ req.endpoint = "create_new_license_plate"
        /\ IF pricing_type = "free" /\ FreeListingsExhausted(current_user)
           THEN /\ last' = [req EXCEPT !.status = Forbidden]
                /\ UNCHANGED db
           ELSE LET valid_until == utcnow + valid_days(pricing_type)
                    new_plate == create_license_plate(plate, current_user,
                                                      pricing_type, valid_until)
                IN  /\ Len(plates) < MaxPlates
                    /\ Len(price_history) < MaxHistory
                    /\ remaining_free_listings' =
                         IF pricing_type = "free"
                         THEN [remaining_free_listings EXCEPT ![current_user] =
                                 RemainingAfterFreeListing(@)]
                         ELSE remaining_free_listings
                    /\ plates' = Append(plates, new_plate)
                    /\ price_history' = create_price_history_entry(new_plate.id, plate.price)
                    /\ last' = [req EXCEPT !.status = Success,
                                           !.plate = Some(new_plate)]
                    /\ UNCHANGED likes
        /\ UNCHANGED <<initial_free_listings, price_history_feature,
                       top_ratings, tasks, server>>

\* ---- PUT /{plate_id}
UpdateStatusAnyCaller(plate_id, current_user) ==
    IF IsNone(get_license_plate(plate_id)) THEN NotFound ELSE Success
UpdateStatus(plate_id, current_user) ==
    IF IsNone(get_license_plate(plate_id)) THEN NotFound
    ELSE IF get_license_plate(plate_id)[1].seller_id # current_user THEN Forbidden
    ELSE Success

update_existing_license_plate(plate_id, plate_update, current_user) ==
    LET req == Request("update_plate", Dispatch("PUT", <<Num(plate_id)>>),
                       Some(current_user), plate_id)
        status == UpdateStatus(plate_id, current_user)
    IN  /\ req.endpoint = "update_existing_license_plate"
        /\ IF status # Success
           THEN /\ last' = [req EXCEPT !.status = status]
                /\ UNCHANGED db
           ELSE LET updated == update_plate_with_price_history(plates[plate_id],
                                                               plate_update)
                IN  /\ Len(updated.history) <= MaxHistory
                    /\ plates' = [plates EXCEPT ![plate_id] = updated.plate]
                    /\ price_history' = updated.history
                    /\ last' = [req EXCEPT !.status = Success,
                                           !.plate = Some(updated.plate)]
                    /\ UNCHANGED <<likes, remaining_free_listings>>
        /\ UNCHANGED <<initial_free_listings, price_history_feature,
                       top_ratings, tasks, server>>


\* ---- POST /{plate_id}/like
\* try / except ValueError -> 404 / except Exception -> 400
ToggleLikeStatus(raised) ==
    IF raised = "" THEN Success
    ELSE IF raised = "ValueError" THEN NotFound
    ELSE BadRequest

ToggleLikeAnswersOldFlag(req, result) ==
    [req EXCEPT !.status = ToggleLikeStatus(result.raised),
                !.is_liked = ~result.is_liked,
                !.total_likes = result.total_likes]
ToggleLikeAnswer(req, result) ==
    [req EXCEPT !.status = ToggleLikeStatus(result.raised),
                !.is_liked = result.is_liked,
                !.total_likes = result.total_likes]

toggle_like(plate_id, current_user) ==
    LET req == [Request("toggle_like", Dispatch("POST", <<Num(plate_id), Lit("like")>>),
                        Some(current_user), plate_id)
                  EXCEPT !.pre_liked = check_plate_like(plate_id, current_user),
                         !.pre_likes = get_plate_likes_count(plate_id)]
        result == toggle_plate_like(plate_id, current_user)
    IN  /\ req.endpoint = "toggle_like"
        /\ Len(result.rows) <= MaxLikes
        /\ likes' = result.rows
        /\ last' = ToggleLikeAnswer(req, result)
        /\ UNCHANGED <<plates, price_history, remaining_free_listings,
                       initial_free_listings, price_history_feature,
                       top_ratings, tasks, server>>

\* ---- GET /liked
\* OFFSET skip LIMIT limit over rows in storage order.
Page(rows, skip, limit) == SubSeq(rows, skip + 1, Min(Len(rows), skip + limit))

get_liked_license_plates(skip, limit, current_user) ==
    Page(SelectSeq(plates, LAMBDA p : check_plate_like(p.id, current_user)),
         skip, limit)

\* The request GET /liked as the router serves it: the endpoint is whichever
\* route matches first; read_license_plate declares plate_id: int, which the
\* segment "liked" does not satisfy.
request_get_liked(skip, limit, current_user) ==
    LET path == <<Lit("liked")>>
        req == [Request("GET /liked", Dispatch("GET", path), Some(current_user), 0)
                  EXCEPT !.query = [NoQuery EXCEPT !.skip = skip, !.limit = limit]]
    IN  /\ last' = IF req.endpoint = "get_liked_license_plates"
                   THEN [req EXCEPT !.status = Success,
                                    !.data = get_liked_license_plates(skip, limit,
                                                                      current_user)]
                   ELSE IF req.endpoint = "read_license_plate" /\ ~IsInt(path[1])
                   THEN [req EXCEPT !.status = Unprocessable]
                   ELSE [req EXCEPT !.status = NotFound]
        /\ UNCHANGED <<db, initial_free_listings, price_history_feature,
                       top_ratings, tasks, server>>

\* ---- GET ""
Filter(col, op, val) == [col |-> col, op |-> op, val |-> val]

\* query_filters, built from the parameters the caller supplied.
QueryFilters(q) ==
    (IF q.price_min # None THEN <<Filter("price", ">=", q.price_min[1])>> ELSE <<>>)
    \o (IF q.price_max # None THEN <<Filter("price", "<=", q.price_max[1])>> ELSE <<>>)
    \o (IF Truthy(q.region) THEN <<Filter("region", "==", q.region[1])>> ELSE <<>>)
    \o (IF q.rating_min # None THEN <<Filter("rating", ">=", q.rating_min[1])>> ELSE <<>>)

Holds(f, plate) ==
    CASE f.op = ">=" -> plate[f.col] >= f.val
      [] f.op = "<=" -> plate[f.col] <= f.val
      [] f.op = "==" -> plate[f.col] = f.val

\* and_(*query_filters)
AllHold(filters, plate) == \A i \in 1..Len(filters) : Holds(filters[i], plate)

\* select(func.count()).where(and_(*query_filters)): the statement names no
\* table of its own; its FROM is whatever table the filters mention.  With
\* no filter there is no FROM and no WHERE, and count(*) of that is 1.
CountQuery(filters) ==
    IF filters = <<>> THEN 1
    ELSE Len(SelectSeq(plates, LAMBDA p : AllHold(filters, p)))

\* select(LicensePlate).offset(skip).limit(limit).where(and_(*query_filters))
PlatesQuery(filters, skip, limit) ==
    Page(SelectSeq(plates, LAMBDA p : AllHold(filters, p)), skip, limit)

read_license_plates(q) ==
    LET req == [Received("list_plates", Dispatch("GET", <<>>), None, 0)
                  EXCEPT !.query = q]
        query_filters == QueryFilters(q)
    IN  /\ req.endpoint = "read_license_plates"
        /\ last' = [req EXCEPT !.status = Success,
                               !.data = PlatesQuery(query_filters, q.skip, q.limit),
                               !.total = CountQuery(query_filters)]
        /\ UNCHANGED <<db, initial_free_listings, price_history_feature,
                       top_ratings, tasks, server>>


\* ---- GET /users/{user_id}
read_license_plates_by_user(user_id, skip, limit) ==
    LET req == [Received("list_by_user",
                         Dispatch("GET", <<Lit("users"), Num(user_id)>>), None, 0)
                  EXCEPT !.query = [NoQuery EXCEPT !.skip = skip, !.limit = limit]]
    IN  /\ req.endpoint = "read_license_plates_by_user"
        /\ last' = [req EXCEPT !.status = Success,
                               !.data = get_license_plates_by_user(user_id, skip, limit)]
        /\ UNCHANGED <<db, initial_free_listings, price_history_feature,
                       top_ratings, tasks, server>>

\* ---- POST /license-plates/{plate_id}/top-rating
points_ge == 1
points_le == 100
days_ge == 1
days_default == 30
days_le == 365

TopRatingStatusAnyCaller(plate_id, current_user) ==
    IF IsNone(get_license_plate(plate_id)) THEN NotFound ELSE Success
TopRatingStatus(plate_id, current_user) ==
    IF IsNone(get_license_plate(plate_id)) THEN NotFound
    ELSE IF get_license_plate(plate_id)[1].seller_id # current_user THEN Forbidden
    ELSE Success

TopRatingCreate(plate_id, points, valid_until) ==
    [plate_id |-> plate_id, points |-> points, valid_until |-> valid_until]

add_to_top_rating(plate_id, points, days, current_user) ==
    LET req == [Request("add_top_rating",
                        Dispatch("POST", <<Lit("license-plates"), Num(plate_id),
                                           Lit("top-rating")>>),
                        Some(current_user), plate_id)
                  EXCEPT !.points = points, !.days = days]
        status == TopRatingStatus(plate_id, current_user)
    IN  /\ req.endpoint = "add_to_top_rating"
        /\ points \in points_ge..points_le
        /\ days \in days_ge..days_le
        /\ IF status # Success
           THEN /\ last' = [req EXCEPT !.status = status]
                /\ UNCHANGED top_ratings
           ELSE LET rating == TopRatingCreate(plate_id, points, utcnow + days)
                IN  /\ Len(top_ratings) < MaxTop
                    /\ top_ratings' = create_top_rating(rating)
                    /\ last' = [req EXCEPT !.status = Success]
        /\ UNCHANGED <<db, initial_free_listings, price_history_feature,
                       tasks, server>>

\* ---- GET /{plate_id}/like
LikeStatusCountsAllRows(req) ==
    [req EXCEPT !.status = Success,
                !.is_liked = check_plate_like(req.plate_id, req.user[1]),
                !.total_likes = Len(likes)]
LikeStatus(req) ==
    [req EXCEPT !.status = Success,
                !.is_liked = check_plate_like(req.plate_id, req.user[1]),
                !.total_likes = get_plate_likes_count(req.plate_id)]

\* The handler as it would be with toggle_plate_like in the place of the
\* two reads.
get_like_status_toggling(plate_id, current_user) ==
    LET req == Request("get_like_status",
                       Dispatch("GET", <<Num(plate_id), Lit("like")>>),
                       Some(current_user), plate_id)
        result == toggle_plate_like(plate_id, current_user)
    IN  /\ req.endpoint = "get_like_status"
        /\ Len(result.rows) <= MaxLikes
        /\ likes' = result.rows
        /\ last' = [req EXCEPT !.status = Success,
                               !.is_liked = result.is_liked,
                               !.total_likes = result.total_likes]
        /\ UNCHANGED <<plates, price_history, remaining_free_listings,
                       initial_free_listings, price_history_feature,
                       top_ratings, tasks, server>>
get_like_status(plate_id, current_user) ==
    LET req == Request("get_like_status",
                       Dispatch("GET", <<Num(plate_id), Lit("like")>>),
                       Some(current_user), plate_id)
    IN  /\ req.endpoint = "get_like_status"
        /\ last' = LikeStatus(req)
        /\ UNCHANGED <<db, initial_free_listings, price_history_feature,
                       top_ratings, tasks, server>>


\* ------------------------------------------------- requests in flight
\* Each request is one task; it runs from one await to the next without
\* interruption and may be suspended at each await.  Every request has its
\* own session: the rows it has loaded are its own copies, and a flush
\* writes the values of those copies.  loaded keeps the value a request
\* found when it loaded the row, copy is the value its copy has now.
Task(op, user, plate_id) ==
    [op |-> op, user |-> user, plate_id |-> plate_id, pc |-> "start",
     loaded |-> 0, copy |-> 0, status |-> 0]

At(t, op, pc) == t \in DOMAIN tasks /\ tasks[t].op = op /\ tasks[t].pc = pc

quiet == <<likes, initial_free_listings, price_history_feature, last,
           top_ratings, server>>

\* ---- POST "" with pricing_type = "free"
\* Depends(get_current_user): the user's row is loaded before the handler
\* runs.
create_plate_load(t) ==
    /\ At(t, "create_plate", "start")
    /\ tasks' = [tasks EXCEPT ![t].loaded = remaining_free_listings[tasks[t].user],
                              ![t].copy = remaining_free_listings[tasks[t].user],
                              ![t].pc = "loaded"]
    /\ UNCHANGED <<db, quiet>>

StoredQuotaExhausted(t) == remaining_free_listings[tasks[t].user] <= 0
\* current_user.remaining_free_listings <= 0, on the request's own copy
LoadedQuotaExhausted(t) == tasks[t].copy <= 0

\* From the start of the handler to its first await: the check and the
\* decrement of the copy.
create_plate_check(t) ==
    /\ At(t, "create_plate", "loaded")
    /\ tasks' = IF LoadedQuotaExhausted(t)
                THEN [tasks EXCEPT ![t].status = Forbidden, ![t].pc = "done"]
                ELSE [tasks EXCEPT ![t].copy = RemainingAfterFreeListing(@),
                                   ![t].pc = "checked"]
    /\ UNCHANGED <<db, quiet>>

\* await create_license_plate(...): the plate is inserted and the session
\* flushes the user's copy with it.
create_plate_flush(t) ==
    LET new_plate == create_license_plate(NewPlate, tasks[t].user, "free",
                                          utcnow + valid_days("free"))
    IN  /\ At(t, "create_plate", "checked")
        /\ Len(plates) < MaxPlates
        /\ remaining_free_listings' =
             [remaining_free_listings EXCEPT ![tasks[t].user] = tasks[t].copy]
        /\ plates' = Append(plates, new_plate)
        /\ tasks' = [tasks EXCEPT ![t].plate_id = new_plate.id, ![t].pc = "created"]
        /\ UNCHANGED <<price_history, likes, quiet>>

\* await create_price_history_entry(...), then the answer.
create_plate_history(t) ==
    /\ At(t, "create_plate", "created")
    /\ Len(price_history) < MaxHistory
    /\ price_history' = create_price_history_entry(tasks[t].plate_id, NewPlate.price)
    /\ tasks' = [tasks EXCEPT ![t].status = Success, ![t].pc = "done"]
    /\ UNCHANGED <<plates, likes, remaining_free_listings, quiet>>

\* ---- GET /{plate_id}
\* plate = await get_license_plate(db, plate_id)
get_plate_load(t) ==
    LET found == get_license_plate(tasks[t].plate_id)
    IN  /\ At(t, "get_plate", "start")
        /\ tasks' = IF IsNone(found)
                    THEN [tasks EXCEPT ![t].status = NotFound, ![t].pc = "done"]
                    ELSE [tasks EXCEPT ![t].loaded = found[1].views_count,
                                       ![t].copy = found[1].views_count,
                                       ![t].pc = "loaded"]
        /\ UNCHANGED <<db, quiet>>

ViewsFlushedFromStore(t) == ViewsAfterRead(plates[tasks[t].plate_id].views_count)
\* plate.views_count += 1, on the request's own copy
ViewsFlushed(t) == ViewsAfterRead(tasks[t].copy)

\* plate.views_count += 1; db.add(plate); await db.flush()
get_plate_flush(t) ==
    /\ At(t, "get_plate", "loaded")
    /\ plates' = [plates EXCEPT ![tasks[t].plate_id].views_count = ViewsFlushed(t)]
    /\ tasks' = [tasks EXCEPT ![t].copy = ViewsFlushed(t), ![t].pc = "flushed"]
    /\ UNCHANGED <<price_history, likes, remaining_free_listings, quiet>>

\* The awaited reads that follow, then the answer.
get_plate_answer(t) ==
    /\ At(t, "get_plate", "flushed")
    /\ tasks' = [tasks EXCEPT ![t].status = Success, ![t].pc = "done"]
    /\ UNCHANGED <<db, quiet>>


\* ------------------------------------------------------------ mock server
\* Text is a sequence of characters.
Whitespace == {" ", "\n"}

RECURSIVE lstrip(_)
lstrip(s) == IF s # <<>> /\ Head(s) \in Whitespace THEN lstrip(Tail(s)) ELSE s

RECURSIVE rstrip(_)
rstrip(s) ==
    IF s # <<>> /\ s[Len(s)] \in Whitespace
    THEN rstrip(SubSeq(s, 1, Len(s) - 1))
    ELSE s

\* str.strip()
strip(s) == rstrip(lstrip(s))

\* str.split(sep): the pieces between the separators, one piece when there
\* is no separator, the empty text included.
RECURSIVE split(_, _)
split(s, sep) ==
    IF \E i \in 1..Len(s) : s[i] = sep
    THEN LET i == CHOOSE j \in 1..Len(s) :
                    s[j] = sep /\ \A k \in 1..(j - 1) : s[k] # sep
         IN  <<SubSeq(s, 1, i - 1)>> \o split(SubSeq(s, i + 1, Len(s)), sep)
    ELSE <<s>>

\* sep.join(pieces)
RECURSIVE join(_, _)
join(pieces, sep) ==
    IF pieces = <<>> THEN <<>>
    ELSE IF Len(pieces) = 1 THEN pieces[1]
    ELSE pieces[1] \o <<sep>> \o join(Tail(pieces), sep)

\* csv.reader(lines): each line is cut at the commas; an empty line is a row
\* of no fields.
reader(lines) ==
    [i \in 1..Len(lines) |->
       IF lines[i] = <<>> THEN <<>> ELSE split(lines[i], ",")]

\* for col_name, value in zip(header, row): row_dict[col_name] = value.strip()
row_dict(header, row) ==
    LET n == Min(Len(header), Len(row))
    IN  [col_name \in {header[i] : i \in 1..n} |->
           LET i == CHOOSE j \in 1..n :
                      /\ header[j] = col_name
                      /\ \A k \in 1..n : header[k] = col_name => k <= j
           IN  strip(row[i])]

parse_csv(csv_string) ==
    LET lines == split(strip(csv_string), "\n")
        rows == reader(lines)
        header == Head(rows)
    IN  [i \in 1..(Len(rows) - 1) |-> row_dict(header, rows[i + 1])]

\* A dict with one key set.
Put(dict, key, value) ==
    [k \in DOMAIN dict \cup {key} |-> IF k = key THEN value ELSE dict[k]]

\* dict.get(key, default)
Get(dict, key, default) == IF key \in DOMAIN dict THEN dict[key] ELSE default

NoResponse ==
    [op |-> "", username |-> "", password |-> "", file |-> <<>>,
     status_code |-> 0, detail |-> "", message |-> "", data |-> <<>>]

Asked(op, username) == [NoResponse EXCEPT !.op = op, !.username = username]

\* users_db = {} ; user_files = {}
InitServer ==
    /\ users_db = [k \in {} |-> ""]
    /\ user_files = [k \in {} |-> <<>>]
    /\ response = NoResponse

\* ---- POST /register/
AlreadyRegisteredIgnored(username) == FALSE
AlreadyRegistered(username) == username \in DOMAIN users_db

register_user(username, password) ==
    LET req == [Asked("register_user", username) EXCEPT !.password = password]
    IN  /\ IF AlreadyRegistered(username)
           THEN /\ response' = [req EXCEPT !.status_code = BadRequest,
                                           !.detail = "User already exists"]
                /\ UNCHANGED <<users_db, user_files>>
           ELSE /\ users_db' = Put(users_db, username, password)
                /\ user_files' = Put(user_files, username, <<>>)
                /\ response' = [req EXCEPT
                                  !.status_code = Success,
                                  !.message = "User registered successfully"]
        /\ UNCHANGED <<db, initial_free_listings, price_history_feature, last,
                       top_ratings, tasks>>

\* ---- POST /upload/{username}
ReplacedBy(records, parsed_data) == parsed_data
\* list.extend
Extended(records, parsed_data) == records \o parsed_data

upload_file(username, file) ==
    LET req == [Asked("upload_file", username) EXCEPT !.file = file]
    IN  /\ IF username \notin DOMAIN users_db
           THEN /\ response' = [req EXCEPT !.status_code = NotFound,
                                           !.detail = "User not found"]
                /\ UNCHANGED <<users_db, user_files>>
           ELSE LET parsed_data == parse_csv(file)
                IN  /\ Len(user_files[username]) + Len(parsed_data) <= MaxRecords
                    /\ user_files' = [user_files EXCEPT ![username] =
                                        Extended(@, parsed_data)]
                    /\ response' = [req EXCEPT
                                      !.status_code = Success,
                                      !.message = "File uploaded successfully"]
                    /\ UNCHANGED users_db
        /\ UNCHANGED <<db, initial_free_listings, price_history_feature, last,
                       top_ratings, tasks>>

\* ---- GET /user/{username} and GET /data/{username}
UserDataAnswerUnchecked(op, username) ==
    [Asked(op, username) EXCEPT !.status_code = Success,
                                !.data = Get(user_files, username, <<>>)]
UserDataAnswer(op, username) ==
    IF username \notin DOMAIN users_db
    THEN [Asked(op, username) EXCEPT !.status_code = NotFound,
                                     !.detail = "User not found"]
    ELSE [Asked(op, username) EXCEPT !.status_code = Success,
                                     !.data = Get(user_files, username, <<>>)]

get_user_data(username) ==
    /\ response' = UserDataAnswer("get_user_data", username)
    /\ UNCHANGED <<users_db, user_files>>
    /\ UNCHANGED <<db, initial_free_listings, price_history_feature, last,
                   top_ratings, tasks>>

get_user_data_json(username) ==
    /\ response' = UserDataAnswer("get_user_data_json", username)
    /\ UNCHANGED <<users_db, user_files>>
    /\ UNCHANGED <<db, initial_free_listings, price_history_feature, last,
                   top_ratings, tasks>>


\* ---- what the clients send
Usernames == {"testuser", "otheruser"}
Passwords == {"testpass", "otherpass"}

\* The lines a file is made of: an empty one, one field, two fields with
\* blanks around the second.
Lines == {<<>>, <<"a">>, <<"a", ",", " ", "b", " ">>}

\* The files of up to n lines.
Files(n) == UNION {{join(t, "\n") : t \in [1..k -> Lines]} : k \in 0..n}

\* A header and one row under it.
SampleFile == join(<<<<"a", ",", " ", "b", " ">>, <<"a", ",", " ", "b", " ">>>>, "\n")


\* ------------------------------------------------------- specifications
Optional(S) == {None} \cup {Some(v) : v \in S}

\* The users whose subscription carries the price-history feature.
Subscribers == {u \in Users : u % 2 = 1}

FirstUser == CHOOSE u \in Users : \A v \in Users : u <= v

\* A fresh database: no rows yet, every user with some quota of free
\* listings.
InitDatabase ==
    /\ plates = <<>>
    /\ price_history = <<>>
    /\ likes = <<>>
    /\ remaining_free_listings \in [Users -> 0..MaxQuota]
    /\ initial_free_listings = remaining_free_listings
    /\ price_history_feature = Subscribers
    /\ last = NoRequest
    /\ top_ratings = <<>>
    /\ InitServer

\* Requests are served one at a time: none is ever in flight.
Init == InitDatabase /\ tasks = <<>>

\* Listing: every user creates plates in every tier.
Next ==
    \E pricing_type \in PricingTypes, current_user \in Users :
      create_new_license_plate(NewPlate, pricing_type, current_user)

Spec == Init /\ [][Next]_vars

\* A fresh database in which no user has used any of the full quota.
InitFull ==
    /\ Init
    /\ remaining_free_listings = [u \in Users |-> MaxQuota]

\* One seller lists paid plates.
CreatePaid == create_new_license_plate(NewPlate, "paid", FirstUser)

\* Updating: paid plates are listed, and repriced by their seller and by
\* others.
NextUpdate ==
    \/ \E current_user \in Users :
         create_new_license_plate(NewPlate, "paid", current_user)
    \/ \E plate_id \in PlateIds, plate_update \in PlateUpdates, current_user \in Users :
         update_existing_license_plate(plate_id, plate_update, current_user)

SpecUpdate == InitFull /\ [][NextUpdate]_vars

\* Reading: the seller's plates, repriced or not, are read by anyone, signed
\* in or not.
NextRead ==
    \/ CreatePaid
    \/ \E plate_id \in PlateIds :
         update_existing_license_plate(plate_id, [price |-> MaxPrice], FirstUser)
    \/ \E plate_id \in PlateIds, current_user \in Optional(Users) :
         read_license_plate(plate_id, current_user)
    \/ \E plate_id \in PlateIds, current_user \in Users :
         read_license_plate_price_history(plate_id, current_user)

SpecRead == InitFull /\ [][NextRead]_vars

\* Likes: the seller's plates are liked and unliked by anyone.
NextLikes ==
    \/ CreatePaid
    \/ \E plate_id \in PlateIds, current_user \in Users :
         toggle_like(plate_id, current_user)
    \/ \E skip \in 0..MaxSkip, current_user \in Users :
         request_get_liked(skip, MaxLimit, current_user)
    \/ \E plate_id \in PlateIds, current_user \in Users :
         get_like_status(plate_id, current_user)

SpecLikes == InitFull /\ [][NextLikes]_vars

\* Filtering: the store holds any rows; rating and region are whatever
\* other parts of the application have written.
StoredPlate(i, price, region, rating) ==
    [id |-> i, seller_id |-> 1, price |-> price, region |-> region,
     rating |-> rating, views_count |-> 0, pricing_type |-> "paid",
     valid_until |-> utcnow + valid_days("paid")]

\* The stores of n rows.
Stores(n) ==
    { [i \in 1..n |-> StoredPlate(i, f[i][1], f[i][2], f[i][3])] :
        f \in [1..n -> Prices \X Regions \X Ratings] }

Queries(skips, limits) ==
    [skip : skips, limit : limits,
     price_min : Optional(Prices), price_max : Optional(Prices),
     region : Optional(0..MaxRegion), rating_min : Optional(Ratings)]

\* A list request has arrived and is not yet answered.
InitList ==
    /\ \E n \in 0..MaxRows : plates \in Stores(n)
    /\ price_history = [i \in 1..Len(plates) |->
                          [plate_id |-> i, price |-> plates[i].price]]
    /\ likes = <<>>
    /\ remaining_free_listings = [u \in Users |-> 0]
    /\ initial_free_listings = remaining_free_listings
    /\ price_history_feature = Subscribers
    /\ \E q \in Queries(0..MaxSkip, 0..MaxLimit) :
         last = [Received("list_plates", Dispatch("GET", <<>>), None, 0)
                   EXCEPT !.query = q]
    /\ top_ratings = <<>>
    /\ tasks = <<>>
    /\ InitServer

NextList == last.status = 0 /\ read_license_plates(last.query)

SpecList == InitList /\ [][NextList]_vars


\* The mock server: anyone registers under any password, uploads the sample
\* file and reads.
NextServer ==
    \/ \E username \in Usernames, password \in Passwords :
         register_user(username, password)
    \/ \E username \in Usernames : upload_file(username, SampleFile)
    \/ \E username \in Usernames : get_user_data(username)
    \/ \E username \in Usernames : get_user_data_json(username)

SpecServer == InitFull /\ [][NextServer]_vars

\* Uploading: one user uploads any file, the other the sample file.
NextUpload ==
    \/ \E username \in Usernames : register_user(username, "testpass")
    \/ \E file \in Files(MaxLines) : upload_file("testuser", file)
    \/ upload_file("otheruser", SampleFile)
    \/ \E username \in Usernames : get_user_data(username)
    \/ \E username \in Usernames : get_user_data_json(username)

SpecUpload == InitFull /\ [][NextUpload]_vars

\* Promoting: one seller lists paid plates and anyone asks to put any plate
\* into the top rating, with the least points for the default days or the
\* greatest points for the greatest days.
TopRequests ==
    {[points |-> points_ge, days |-> days_default],
     [points |-> points_le, days |-> days_le]}

NextTop ==
    \/ CreatePaid
    \/ \E plate_id \in PlateIds, r \in TopRequests, current_user \in Users :
         add_to_top_rating(plate_id, r.points, r.days, current_user)

SpecTop == InitFull /\ [][NextTop]_vars

\* The stores of like rows over n plates: at most one row for a user and a
\* plate, in any order.
LikeStores(n) ==
    {rows \in UNION {[1..k -> [user_id : Users, plate_id : 1..n]] : k \in 0..MaxLikes} :
       \A i, j \in 1..Len(rows) : rows[i] = rows[j] => i = j}

\* One request of any kind arrives at a database that holds the seller's
\* plates and any likes by anyone.
InitFrame ==
    /\ \E n \in 0..MaxPlates :
         plates = [i \in 1..n |-> StoredPlate(i, NewPlate.price, NewPlate.region, 0)]
    /\ price_history = [i \in 1..Len(plates) |->
                          [plate_id |-> i, price |-> plates[i].price]]
    /\ likes \in LikeStores(Len(plates))
    /\ remaining_free_listings = [u \in Users |-> MaxQuota]
    /\ initial_free_listings = remaining_free_listings
    /\ price_history_feature = Subscribers
    /\ last = NoRequest
    /\ top_ratings = <<>>
    /\ tasks = <<>>
    /\ InitServer

Unanswered == last.status = 0

NextFrame ==
    \/ \E pricing_type \in PricingTypes, current_user \in Users :
         Unanswered /\ create_new_license_plate(NewPlate, pricing_type, current_user)
    \/ \E plate_id \in PlateIds, plate_update \in PlateUpdates, current_user \in Users :
         Unanswered /\ update_existing_license_plate(plate_id, plate_update, current_user)
    \/ \E plate_id \in PlateIds, current_user \in Optional(Users) :
         Unanswered /\ read_license_plate(plate_id, current_user)
    \/ \E plate_id \in PlateIds, current_user \in Users :
         Unanswered /\ read_license_plate_price_history(plate_id, current_user)
    \/ \E limit \in 0..MaxLimit :
         Unanswered /\ read_license_plates([NoQuery EXCEPT !.limit = limit])
    \/ \E user_id \in Users, limit \in 0..MaxLimit :
         Unanswered /\ read_license_plates_by_user(user_id, 0, limit)
    \/ \E limit \in 0..MaxLimit, current_user \in Users :
         Unanswered /\ request_get_liked(0, limit, current_user)
    \/ \E plate_id \in PlateIds, r \in TopRequests, current_user \in Users :
         Unanswered /\ add_to_top_rating(plate_id, r.points, r.days, current_user)
    \/ \E plate_id \in PlateIds, current_user \in Users :
         Unanswered /\ toggle_like(plate_id, current_user)
    \/ \E plate_id \in PlateIds, current_user \in Users :
         Unanswered /\ get_like_status(plate_id, current_user)

SpecFrame == InitFrame /\ [][NextFrame]_vars

\* Concurrent free listings: each of the requests in flight is a free-tier
\* create by some user.
InitCreating ==
    /\ InitDatabase
    /\ tasks \in [1..MaxTasks -> {Task("create_plate", u, 0) : u \in Users}]

NextCreating ==
    \/ \E t \in 1..MaxTasks : create_plate_load(t)
    \/ \E t \in 1..MaxTasks : create_plate_check(t)
    \/ \E t \in 1..MaxTasks : create_plate_flush(t)
    \/ \E t \in 1..MaxTasks : create_plate_history(t)

SpecCreating == InitCreating /\ [][NextCreating]_vars

\* Concurrent reads: the store holds the seller's plates, not yet viewed, and
\* each of the requests in flight reads some plate.
InitReading ==
    /\ InitDatabase
    /\ remaining_free_listings = [u \in Users |-> MaxQuota]
    /\ tasks \in [1..MaxTasks -> {Task("get_plate", 0, p) : p \in PlateIds}]

NextReading ==
    \/ CreatePaid /\ \A t \in 1..MaxTasks : tasks[t].pc = "start"
    \/ \E t \in 1..MaxTasks : get_plate_load(t)
    \/ \E t \in 1..MaxTasks : get_plate_flush(t)
    \/ \E t \in 1..MaxTasks : get_plate_answer(t)

SpecReading == InitReading /\ [][NextReading]_vars

\* ----------------------------------------------------------------- claims
Exists(plate_id) == plate_id \in 1..Len(plates)

FreePlatesOf(user_id) ==
    Cardinality({i \in 1..Len(plates) :
                   plates[i].seller_id = user_id /\ plates[i].pricing_type = "free"})

\* C1: a free-tier create_plate by a user whose remaining_free_listings is 0
\* is answered Forbidden, and the step creates no plate, appends no price
\* history row and leaves every quota as it was.
C1_FreeCreateWithoutQuotaForbidden ==
    [][ (/\ last'.op = "create_plate"
         /\ last'.pricing_type = "free"
         /\ remaining_free_listings[last'.user[1]] = 0)
        => (/\ last'.status = Forbidden
            /\ plates' = plates
            /\ price_history' = price_history
            /\ remaining_free_listings' = remaining_free_listings) ]_vars

\* C1 witness: a free-tier create was refused for a user with no quota left.
C1_Witness ==
    /\ last.op = "create_plate"
    /\ last.pricing_type = "free"
    /\ last.status = Forbidden
    /\ remaining_free_listings[last.user[1]] = 0

C2_QuotaAccounted ==
    \A u \in Users :
      /\ remaining_free_listings[u] >= 0
      /\ FreePlatesOf(u) + remaining_free_listings[u] = initial_free_listings[u]

C2_FreeCreateStep ==
    (last'.op = "create_plate" /\ last'.pricing_type = "free")
    => LET u == last'.user[1]
       IN  IF remaining_free_listings[u] > 0
           THEN /\ last'.status = Success
                /\ Len(plates') = Len(plates) + 1
                /\ remaining_free_listings' =
                     [remaining_free_listings EXCEPT ![u] = @ - 1]
           ELSE /\ last'.status = Forbidden
                /\ remaining_free_listings' = remaining_free_listings

\* C2: of a user's sequential free-tier creates exactly the first n succeed,
\* n being the quota the user started with: each success lowers the quota by
\* exactly 1 and adds one free plate, a call at quota 0 is Forbidden, and the
\* free plates a user owns plus the quota left always equal n.
C2_FirstNFreeCreatesSucceed == []C2_QuotaAccounted /\ [][C2_FreeCreateStep]_vars

\* C2 witness: a user who started with quota and has used all of it is
\* refused the next free-tier create.
C2_Witness ==
    /\ last.op = "create_plate"
    /\ last.pricing_type = "free"
    /\ last.status = Forbidden
    /\ initial_free_listings[last.user[1]] >= 1
    /\ FreePlatesOf(last.user[1]) = initial_free_listings[last.user[1]]

LikedIn(rows, plate_id, user_id) ==
    \E i \in 1..Len(rows) : rows[i].user_id = user_id /\ rows[i].plate_id = plate_id

\* C3: two successful toggle_like calls in succession by the same user on
\* the same plate put the like count and the liked flag back to what they
\* were before the first call, and the first call answered the negation of
\* the flag it found.
C3_ToggleTwiceRestores ==
    [][ (/\ last'.op = "toggle_like"
         /\ last'.status = Success
         /\ last'.again)
        => (/\ last.is_liked = ~last.pre_liked
            /\ last'.is_liked = last.pre_liked
            /\ last'.total_likes = last.pre_likes
            /\ LikedIn(likes', last'.plate_id, last'.user[1]) = last.pre_liked
            /\ LikesCountIn(likes', last'.plate_id) = last.pre_likes) ]_vars

\* C3 witness: the second of two successive toggles by one user on one plate
\* that was liked before the first.
C3_Witness ==
    /\ last.op = "toggle_like"
    /\ last.status = Success
    /\ last.again
    /\ last.is_liked

\* C4: a get_plate of an existing plate succeeds and raises that plate's
\* views_count by exactly 1 and no other plate's; the second of two
\* successive calls leaves it 2 above what the first call found; a get_plate
\* of a missing plate is NotFound and changes no plate.
C4_ReadAddsOneView ==
    [][ (last'.op = "get_plate")
        => IF Exists(last'.plate_id)
           THEN /\ last'.status = Success
                /\ Len(plates') = Len(plates)
                /\ \A i \in 1..Len(plates) :
                     plates'[i].views_count =
                       plates[i].views_count + (IF i = last'.plate_id THEN 1 ELSE 0)
                /\ last'.again =>
                     plates'[last'.plate_id].views_count = last.pre_views + 2
           ELSE /\ last'.status = NotFound
                /\ plates' = plates ]_vars

\* C4 witness: the second of two successive reads of one plate while another
\* plate is in the store.
C4_Witness ==
    /\ last.op = "get_plate"
    /\ last.status = Success
    /\ last.again
    /\ Len(plates) >= 2

\* C5: get_price_history answers Forbidden to every user without the
\* price-history feature, whether or not the plate exists; NotFound is
\* answered only to a user who has the feature.
C5_FeatureCheckedBeforeExistence ==
    last.op = "get_price_history"
    => /\ last.user[1] \notin price_history_feature => last.status = Forbidden
       /\ last.status = NotFound =>
            (last.user[1] \in price_history_feature /\ ~Exists(last.plate_id))

\* C5 witness: Forbidden for a plate id that matches no plate.
C5_Witness ==
    /\ last.op = "get_price_history"
    /\ last.status = Forbidden
    /\ ~Exists(last.plate_id)

\* C6: update_plate of an existing plate by a user who is not its seller is
\* Forbidden and leaves the plates and the price history as they were;
\* update_plate of a missing plate is NotFound for every caller.
C6_NonOwnerUpdateChangesNothing ==
    [][ (last'.op = "update_plate")
        => /\ ~Exists(last'.plate_id) =>
                (last'.status = NotFound /\ plates' = plates
                 /\ price_history' = price_history)
           /\ (Exists(last'.plate_id)
               /\ plates[last'.plate_id].seller_id # last'.user[1]) =>
                (last'.status = Forbidden /\ plates' = plates
                 /\ price_history' = price_history) ]_vars

\* C6 witness: a non-owner was refused the update of an existing plate.
C6_Witness ==
    /\ last.op = "update_plate"
    /\ last.status = Forbidden
    /\ Exists(last.plate_id)
    /\ plates[last.plate_id].seller_id # last.user[1]

\* C7: GET /liked is served by get_liked_license_plates and answers the
\* requested page of the plates the user has liked.
C7_GetLikedServedByListLiked ==
    last.op = "GET /liked"
    => /\ last.endpoint = "get_liked_license_plates"
       /\ last.status = Success
       /\ last.data = get_liked_license_plates(last.query.skip, last.query.limit,
                                               last.user[1])

NoFilters(q) ==
    q.price_min = None /\ q.price_max = None /\ q.region = None /\ q.rating_min = None

\* C8: list_plates without filters answers total = the number of plate rows
\* and a page of min(limit, rows - skip) plates (none when skip is past the
\* end).
C8_UnfilteredTotalIsRowCount ==
    (last.op = "list_plates" /\ last.status = Success /\ NoFilters(last.query))
    => /\ last.total = Len(plates)
       /\ Len(last.data) = Max(0, Min(last.query.limit, Len(plates) - last.query.skip))

\* A plate satisfies the filters the caller supplied; an absent one excludes
\* nothing.
Satisfies(plate, q) ==
    /\ q.price_min # None => plate.price >= q.price_min[1]
    /\ q.price_max # None => plate.price <= q.price_max[1]
    /\ q.region # None => plate.region = q.region[1]
    /\ q.rating_min # None => plate.rating >= q.rating_min[1]

\* C9: every plate list_plates returns satisfies all supplied filters
\* (supplied values of 0 included) and total is the number of plates that
\* satisfy them, whatever skip and limit are.
C9_SuppliedFiltersApplied ==
    (last.op = "list_plates" /\ last.status = Success)
    => /\ \A i \in 1..Len(last.data) : Satisfies(last.data[i], last.query)
       /\ last.total =
            Cardinality({i \in 1..Len(plates) : Satisfies(plates[i], last.query)})

\* C10: get_plate answers an empty price_history to an anonymous request and
\* to a user without price-history access, whatever history the plate has.
C10_HistoryOnlyWithAccess ==
    (/\ last.op = "get_plate"
     /\ last.status = Success
     /\ (IsNone(last.user) \/ ~can_view_price_history(last.user[1])))
    => last.price_history = <<>>

\* C10 witness: a signed-in user without access read a plate that has a
\* price history and was shown none.
C10_Witness ==
    /\ last.op = "get_plate"
    /\ last.status = Success
    /\ ~IsNone(last.user)
    /\ ~can_view_price_history(last.user[1])
    /\ Len(get_price_history(last.plate_id)) >= 2
    /\ last.price_history = <<>>

\* C11: every plate create_plate creates, in the answer and in the store, is
\* valid until exactly 30 days after the clock read at creation, whether its
\* tier is free, paid or vip.
C11_ValidThirtyDaysEveryTier ==
    /\ (last.op = "create_plate" /\ last.status = Success)
         => /\ last.plate[1].valid_until = utcnow + 30
            /\ last.plate[1].pricing_type = last.pricing_type
            /\ plates[Len(plates)] = last.plate[1]
    /\ \A i \in 1..Len(plates) : plates[i].valid_until = utcnow + 30

\* C11 witness: a vip plate and a free plate are in the store, the vip one
\* just created.
C11_Witness ==
    /\ last.op = "create_plate"
    /\ last.status = Success
    /\ last.pricing_type = "vip"
    /\ last.plate[1].valid_until = utcnow + 30
    /\ \E i \in 1..Len(plates) : plates[i].pricing_type = "free"

Registered(username) == username \in DOMAIN users_db

C12_RegisterStep ==
    response'.op = "register_user"
    => IF Registered(response'.username)
       THEN /\ response'.status_code = 400
            /\ response'.detail = "User already exists"
            /\ users_db' = users_db
            /\ user_files' = user_files
       ELSE /\ response'.status_code = 200
            /\ response'.message = "User registered successfully"
            /\ DOMAIN users_db' = DOMAIN users_db \cup {response'.username}
            /\ users_db'[response'.username] = response'.password
            /\ \A u \in DOMAIN users_db :
                 users_db'[u] = users_db[u] /\ user_files'[u] = user_files[u]

\* C12: register_user of a username not yet registered succeeds with 'User
\* registered successfully' and stores the password; of a registered one it
\* fails with 400 'User already exists' and leaves every stored password and
\* every uploaded record as it was, whatever registrations and uploads came
\* before.
C12_RegisterTwiceRefused == [][C12_RegisterStep]_vars

\* C12 witness: a user who has uploaded records was refused a second
\* registration under another password, and still has the first password
\* and the records.
C12_Witness ==
    /\ response.op = "register_user"
    /\ response.status_code = 400
    /\ response.detail = "User already exists"
    /\ users_db[response.username] # response.password
    /\ Len(user_files[response.username]) = MaxRecords

C13_UnknownUserStep ==
    (/\ response'.op \in {"upload_file", "get_user_data", "get_user_data_json"}
     /\ ~Registered(response'.username))
    => /\ response'.status_code = 404
       /\ response'.detail = "User not found"
       /\ users_db' = users_db
       /\ user_files' = user_files
       /\ response'.username \notin DOMAIN users_db' \cup DOMAIN user_files'

\* C13: upload_file, get_user_data and get_user_data_json for a username
\* that is not registered each fail with 404 'User not found', leave the
\* registered users and every user's records as they were, and do not
\* register the username.
C13_UnknownUserNotFound == [][C13_UnknownUserStep]_vars

\* C13 witness: an upload for an unregistered username was refused while
\* another user had uploaded records.
C13_Witness ==
    /\ response.op = "upload_file"
    /\ response.status_code = 404
    /\ ~Registered(response.username)
    /\ \E u \in DOMAIN user_files : user_files[u] # <<>>

\* The lines of a file below its header, blanks around the file aside.
DataRows(file) ==
    Cardinality({i \in 1..Len(strip(file)) : strip(file)[i] = "\n"})

\* The names in the first line of a file.
HeaderNames(file) ==
    LET header == Head(split(strip(file), "\n"))
    IN  IF header = <<>> THEN {}
        ELSE {split(header, ",")[i] : i \in 1..Len(split(header, ","))}

C14_Step ==
    /\ (response'.op = "register_user" /\ response'.status_code = 200)
       => user_files'[response'.username] = <<>>
    /\ (response'.op = "upload_file" /\ response'.status_code = 200)
       => LET parsed == parse_csv(response'.file)
          IN  /\ user_files'[response'.username] =
                   user_files[response'.username] \o parsed
              /\ \A u \in DOMAIN user_files \ {response'.username} :
                   user_files'[u] = user_files[u]
              /\ Len(parsed) = DataRows(response'.file)
              /\ \A i \in 1..Len(parsed) :
                   DOMAIN parsed[i] \subseteq HeaderNames(response'.file)
    /\ (/\ response'.op \in {"get_user_data", "get_user_data_json"}
        /\ Registered(response'.username))
       => /\ response'.status_code = 200
          /\ response'.data = user_files[response'.username]
          /\ user_files' = user_files

C17_OneLikeRowPerUserAndPlate ==
    /\ \A i, j \in 1..Len(likes) : likes[i] = likes[j] => i = j
    /\ ((last.op = "toggle_like" /\ last.status = Success)
        \/ last.op = "get_like_status")
       => last.total_likes =
            Cardinality({u \in Users : LikedIn(likes, last.plate_id, u)})

\* C17 witness: a user took a like back from a plate another user still
\* likes, and was answered a total of 1.
C17_Witness ==
    /\ last.op = "toggle_like"
    /\ last.status = Success
    /\ last.pre_liked
    /\ ~last.is_liked
    /\ last.pre_likes = 2
    /\ last.total_likes = 1
    /\ \E u \in Users : LikedIn(likes, last.plate_id, u)

C18_TopRatingStep ==
    last'.op = "add_top_rating"
    => IF ~Exists(last'.plate_id)
       THEN last'.status = 404 /\ top_ratings' = top_ratings
       ELSE IF plates[last'.plate_id].seller_id # last'.user[1]
       THEN last'.status = 403 /\ top_ratings' = top_ratings
       ELSE /\ last'.status = 200
            /\ top_ratings' =
                 Append(top_ratings,
                        [plate_id |-> last'.plate_id,
                         points |-> last'.points,
                         valid_until |-> utcnow + last'.days])

\* C18: add_top_rating answers NotFound for a plate that does not exist,
\* whoever asks, Forbidden for a plate whose seller is not the caller, and
\* creates no TopRating row in either case; for the seller it appends
\* exactly one row with the given points, valid until now + days.
C18_ExistenceBeforeOwnership == [][C18_TopRatingStep]_vars

\* C18 witness: the seller of a plate put it into the top rating a second
\* time, with the greatest points and days after the least points and the
\* default days.
C18_Witness ==
    /\ last.op = "add_top_rating"
    /\ last.status = 200
    /\ Len(top_ratings) = 2
    /\ top_ratings[1] = [plate_id |-> last.plate_id, points |-> 1,
                         valid_until |-> utcnow + 30]
    /\ top_ratings[2] = [plate_id |-> last.plate_id, points |-> 100,
                         valid_until |-> utcnow + 365]

Rows(seq) == {seq[i] : i \in 1..Len(seq)}

C19_Step ==
    /\ \A u \in Users, p \in PlateIds :
         LikedIn(likes', p, u) # LikedIn(likes, p, u)
         => /\ last'.op = "toggle_like"
            /\ last'.status = 200
            /\ last'.user = Some(u)
            /\ last'.plate_id = p
    /\ Rows(likes') \subseteq [user_id : Users, plate_id : PlateIds]
    /\ last'.op # "toggle_like" => likes' = likes
    /\ last'.op = "get_like_status"
       => UNCHANGED <<plates, price_history, likes, remaining_free_listings,
                      top_ratings>>

\* C19: a user's like of a plate appears or disappears only in a successful
\* toggle_like by that user on that plate; every other request, and a
\* toggle_like by another user or on another plate, leaves that row as it
\* was; get_like_status writes nothing at all.
C19_OnlyOwnToggleChangesLike == [][C19_Step]_vars

\* C19 witness: a user took a like back from a plate while another user's
\* like of the same plate and a like of another plate stayed.
C19_Witness ==
    /\ last.op = "toggle_like"
    /\ last.status = 200
    /\ last.pre_liked
    /\ ~last.is_liked
    /\ \E u \in Users : u # last.user[1] /\ LikedIn(likes, last.plate_id, u)

Done(t) == tasks[t].pc = "done"

\* C15: a free-tier create is decided by the quota the request loaded, not
\* by the quota stored when it checks: it is Forbidden exactly when the
\* loaded quota was 0, and once all requests are answered every user has one
\* free plate for each request that loaded a positive quota, also when that
\* is more plates than the quota the user had; the stored quota is never
\* below 0.
C15_LoadedQuotaDecides ==
    /\ \A t \in DOMAIN tasks :
         Done(t) => /\ tasks[t].status = 403 <=> tasks[t].loaded <= 0
                    /\ tasks[t].status = 200 <=> tasks[t].loaded > 0
    /\ \A u \in Users : remaining_free_listings[u] >= 0
    /\ (\A t \in DOMAIN tasks : Done(t))
       => \A u \in Users :
            FreePlatesOf(u) =
              Cardinality({t \in DOMAIN tasks : tasks[t].user = u /\ tasks[t].loaded > 0})

\* C15 witness: two free-tier creates by a user whose quota was 1 have both
\* been answered with success, and the user has two free plates.
C15_Witness ==
    \E t1, t2 \in DOMAIN tasks :
      /\ t1 # t2
      /\ tasks[t1].user = tasks[t2].user
      /\ initial_free_listings[tasks[t1].user] = 1
      /\ Done(t1) /\ tasks[t1].status = 200 /\ tasks[t1].loaded = 1
      /\ Done(t2) /\ tasks[t2].status = 200 /\ tasks[t2].loaded = 1
      /\ FreePlatesOf(tasks[t1].user) = 2
      /\ remaining_free_listings[tasks[t1].user] = 0

Readers(p) == {t \in DOMAIN tasks : tasks[t].plate_id = p /\ tasks[t].status = 200}

\* C16: a get_plate writes the views_count its own copy has, the value it
\* loaded plus 1: once all requests are answered, a plate that was read
\* shows one more view than some request loaded, and when two requests
\* loaded the same value it shows fewer views than there were reads.
C16_ViewWrittenFromOwnCopy ==
    /\ \A t \in DOMAIN tasks :
         (Done(t) /\ tasks[t].status = 200) => tasks[t].copy = tasks[t].loaded + 1
    /\ (\A t \in DOMAIN tasks : Done(t))
       => \A p \in 1..Len(plates) :
            /\ Readers(p) = {} => plates[p].views_count = 0
            /\ Readers(p) # {}
               => \E t \in Readers(p) : plates[p].views_count = tasks[t].loaded + 1
            /\ (\E t1, t2 \in Readers(p) :
                  t1 # t2 /\ tasks[t1].loaded = tasks[t2].loaded)
               => plates[p].views_count < Cardinality(Readers(p))

\* C16 witness: two reads of one plate have both been answered with success
\* and the plate, not viewed before, shows 1 view.
C16_Witness ==
    \E t1, t2 \in DOMAIN tasks :
      /\ t1 # t2
      /\ tasks[t1].plate_id = tasks[t2].plate_id
      /\ Done(t1) /\ tasks[t1].status = 200
      /\ Done(t2) /\ tasks[t2].status = 200
      /\ tasks[t1].loaded = 0 /\ tasks[t2].loaded = 0
      /\ plates[tasks[t1].plate_id].views_count = 1

====
